---- MODULE Spec2Model ----
(***************************************************************************)
(* Survey data finder (src/main.py): the remote API client, survey         *)
(* discovery, the participation calculator, the report job and the         *)
(* report batch orchestrator, and the search / generate handlers of the    *)
(* page, as state machines.                                                *)
(*                                                                         *)
(* Conventions.  Python's None is the empty sequence and a present value v *)
(* is <<v>> (None / Some).  A piece of text the operator types is a        *)
(* sequence of one-character strings; a course id is such a sequence.  A   *)
(* character outside ASCII is written by its name ("SUPERSCRIPT TWO").  A  *)
(* formatted message is the record of its parts (the survey title it is    *)
(* tagged with, its fixed text, the interpolated status code).             *)
(***************************************************************************)
EXTENDS Integers, Sequences, FiniteSets, TLC

VARIABLES
    BASE_URL,       \* config("URL"), fixed for the life of the process
    \* ---- one report job run on its own (generate_report)
    jobSpec,        \* the SurveySpec the job is run for
    jobRemote,      \* what the remote system answers to the job's requests
    jobOut,         \* None until the job has returned, then <<its outcome>>
    \* ---- one call of the API client (canvas_request)
    reqServer,      \* the pages the remote system serves, by url
    reqPaginated,   \* the paginated argument
    reqOut,         \* None until the call is over, then <<its outcome>>
    \* ---- one participation record (obtener_participacion_encuesta)
    partEnroll,     \* the pages of the enrollments listing
    partSubs,       \* the page of the submissions listing
    partOut,        \* None until computed, then <<the outcome>>
    \* ---- one call of parse_course_ids, of clean_string, of the sheet writer
    parseIn,        \* the text given to parse_course_ids
    parseOut,       \* None until parsed, then <<the ids>>
    cleanIn,        \* the string given to clean_string
    cleanOut,       \* the values returned so far, each from the one before
    sheetIn,        \* the ordered results given to the spreadsheet assembly
    sheetOut,       \* None until assembled, then <<the sheet>>
    \* ---- the report batch (generar_reportes_en_paralelo)
    bpc,            \* "idle" | "running" | "returned"
    answers,        \* the ways the remote system may answer a job of the batch
    encuestas,      \* the batch as submitted
    futures,        \* per submission index: "queued" | "running" | "done"
    futureRet,      \* per submission index: None, or <<outcome of the job>>
    yielded,        \* submission indices as_completed has already yielded
    resultados,     \* list of <<ingreso_idx, df>> in completion order
    errores,        \* list of error messages in completion order
    retorno,        \* None, or <<[resultados_ordenados, errores]>>
    \* ---- the participation batch (lines 343-356)
    ppc,            \* "idle" | "running" | "raised" | "done"
    seleccion,      \* the selected surveys the batch was submitted for
    ppFutures,      \* per submission index: "queued" | "running" | "done"
    ppRet,          \* per submission index: None, or <<outcome>>
    ppYielded,      \* submission indices as_completed has already yielded
    ppLista,        \* the list participaciones, in completion order
    \* ---- the page (st.session_state and the widgets), one script run per step
    upc,            \* "idle" | "generating" (inside the generate handler)
    surveys_data,   \* None, or <<[by_course, all, ids]>>
    report_ready,   \* None while the key is absent, else <<boolean>>
    report_excel,   \* None while absent or None, else <<the workbook>>
    report_errors,  \* None while absent or None, else <<list of messages>>
    checked,        \* the keys of the checkboxes that are ticked
    fetch_failed,   \* per course id of the last search: its listing fetch failed
    shown           \* what the last script run displayed

jobVars   == <<jobSpec, jobRemote, jobOut>>
reqVars   == <<reqServer, reqPaginated, reqOut>>
partVars  == <<partEnroll, partSubs, partOut>>
pureVars  == <<parseIn, parseOut, cleanIn, cleanOut, sheetIn, sheetOut>>
batchVars == <<bpc, answers, encuestas, futures, futureRet, yielded, resultados,
               errores, retorno>>
poolVars  == <<ppc, seleccion, ppFutures, ppRet, ppYielded, ppLista>>
reportVars == <<report_ready, report_excel, report_errors>>
uiVars    == <<upc, surveys_data, reportVars, checked, fetch_failed, shown>>
vars      == <<BASE_URL, jobVars, reqVars, partVars, pureVars, poolVars,
               batchVars, uiVars>>
outsideBatch == <<BASE_URL, jobVars, reqVars, partVars, pureVars, poolVars, uiVars>>

(***************************************************************************)
(* Bounds of the model.                                                    *)
(***************************************************************************)
MaxSpecs == 3       \* largest batch handed to the orchestrator
MaxRows  == 1       \* most data rows of one exported CSV

(***************************************************************************)
(* Program constants.                                                      *)
(***************************************************************************)
PollAttempts == 120
max_workers  == 4
max_workers_participacion == 8

None    == <<>>
Some(v) == <<v>>

Range(s) == {s[i] : i \in 1..Len(s)}

SeqsUpTo(S, n) == UNION {[1..k -> S] : k \in 0..n}

(***************************************************************************)
(* The remote system's catalogue: the quizzes of each course.              *)
(***************************************************************************)
CourseIds == {<<"1">>, <<"2">>, <<"3">>}

RemoteQuizzes(cid) ==
    IF cid = <<"1">> THEN
        << [id |-> 11, title |-> "A", quiz_type |-> "survey"],
           [id |-> 12, title |-> "Q", quiz_type |-> "assignment"] >>
    ELSE IF cid = <<"2">> THEN
        << [id |-> 21, title |-> "B", quiz_type |-> "graded_survey"],
           [id |-> 22, title |-> "A", quiz_type |-> "survey"] >>
    ELSE << >>

SurveySpec(cid, q) ==
    [course_id |-> cid, title |-> q.title, id |-> q.id, quiz_type |-> q.quiz_type]

SurveyTypes == {"survey", "graded_survey"}

SpecPool ==
    UNION { { SurveySpec(cid, RemoteQuizzes(cid)[i]) :
                i \in { k \in 1..Len(RemoteQuizzes(cid)) :
                          RemoteQuizzes(cid)[k].quiz_type \in SurveyTypes } } :
            cid \in CourseIds }

(***************************************************************************)
(* canvas_request (src/main.py 32-55).                                     *)
(*                                                                         *)
(* server maps a url (1 is BASE_URL + endpoint; 0 is no url) to the answer *)
(* the remote system gives there: exc (the transport raises), status_code, *)
(* data (the JSON body) and next (the url of the "next" link, 0 if none).  *)
(* The outcome is the returned value, whether the call raised the          *)
(* ValueError of line 34, and the number of requests made.                 *)
(***************************************************************************)
ResponseOk(response) == response.status_code < 400

\* variant of lines 45 and 55: the pages fetched so far are returned
failure_value_parcial(results) == Some(results)

\* lines 45 and 55: return None
failure_value(results) == None

\* the while loop of lines 38-52, entered with url, results and the number
\* of requests already made
RECURSIVE request_loop(_, _, _, _, _)
request_loop(server, url, results, paginated, made) ==
    IF url = 0
    THEN [ret |-> IF paginated THEN Some(results) ELSE None,
          raised |-> FALSE, requests |-> made]
    ELSE LET response == server[url] IN
         IF response.exc
         THEN [ret |-> failure_value(results), raised |-> FALSE,
               requests |-> made + 1]
         ELSE IF ~ResponseOk(response)
         THEN [ret |-> failure_value(results), raised |-> FALSE,
               requests |-> made + 1]
         ELSE IF paginated
         THEN request_loop(server, response.next, results \o response.data,
                           paginated, made + 1)
         ELSE [ret |-> Some(response.data), raised |-> FALSE,
               requests |-> made + 1]

canvas_request(server, paginated) ==
    IF BASE_URL = ""
    THEN [ret |-> None, raised |-> TRUE, requests |-> 0]
    ELSE request_loop(server, 1, <<>>, paginated, 0)

(***************************************************************************)
(* The participation calculator (src/main.py 180-220).                     *)
(*                                                                         *)
(* An enrollment is [user |-> [name |-> ...]].  The body of the submissions*)
(* listing is [is_dict, quiz_submissions]; a submission is [user_id,       *)
(* submitted_at, finished_at] with user_id 0 for a missing id and each     *)
(* timestamp None or <<t>>.  A text produced by the format "{:.1f}%" is    *)
(* <<integer part, decimal digit>>; the literal "0%" is <<0>>.             *)
(***************************************************************************)
Raised == [raised |-> TRUE, value |-> None]
Returned(v) == [raised |-> FALSE, value |-> Some(v)]

get_students_count(server) ==
    LET r == canvas_request(server, TRUE) IN
    IF r.raised THEN Raised
    ELSE IF r.ret = None \/ r.ret[1] = <<>> THEN Returned(0)
    ELSE LET students == r.ret[1] IN
         Returned(Cardinality({ k \in 1..Len(students) :
                                  students[k].user.name # "Test Student" }))

Truthy(opt) == opt # None

\* a dict that holds the key is not empty; a list is true when not empty
BodyTruthy(body) == body.is_dict \/ body.quiz_submissions # <<>>

\* variant of lines 200-204: every timestamped submission is counted
get_quiz_submissions_count_sin_set(server) ==
    LET r == canvas_request(server, FALSE) IN
    IF r.raised THEN Raised
    ELSE IF r.ret = None \/ ~BodyTruthy(r.ret[1]) THEN Returned(0)
    ELSE LET submissions == r.ret[1]
             quiz_submissions == IF submissions.is_dict
                                 THEN submissions.quiz_submissions ELSE <<>>
         IN  Returned(Cardinality({ j \in 1..Len(quiz_submissions) :
                                 /\ ( Truthy(quiz_submissions[j].submitted_at)
                                      \/ Truthy(quiz_submissions[j].finished_at) )
                                 /\ quiz_submissions[j].user_id # 0 }))

get_quiz_submissions_count(server) ==
    LET r == canvas_request(server, FALSE) IN
    IF r.raised THEN Raised
    ELSE IF r.ret = None \/ ~BodyTruthy(r.ret[1]) THEN Returned(0)
    ELSE LET submissions == r.ret[1]
             quiz_submissions == IF submissions.is_dict
                                 THEN submissions.quiz_submissions ELSE <<>>
             user_ids == { quiz_submissions[k].user_id :
                             k \in { j \in 1..Len(quiz_submissions) :
                                 /\ ( Truthy(quiz_submissions[j].submitted_at)
                                      \/ Truthy(quiz_submissions[j].finished_at) )
                                 /\ quiz_submissions[j].user_id # 0 } }
         IN  Returned(Cardinality(user_ids))

\* variant of line 209: no floor at zero
no_contestadas_sin_piso(alumnos, contestadas) == alumnos - contestadas

\* line 209
no_contestadas(alumnos, contestadas) ==
    IF alumnos >= contestadas THEN alumnos - contestadas ELSE 0

\* the tenths of parte / alumnos * 100 rounded to one decimal (half to even)
Tenths(parte, alumnos) ==
    LET q == (1000 * parte) \div alumnos
        r == (1000 * parte) % alumnos
    IN  IF 2 * r > alumnos \/ (2 * r = alumnos /\ q % 2 = 1) THEN q + 1 ELSE q

\* lines 210-211
porcentaje(parte, alumnos) ==
    IF alumnos > 0
    THEN << Tenths(parte, alumnos) \div 10, Tenths(parte, alumnos) % 10 >>
    ELSE << 0 >>

obtener_participacion_encuesta(curso, encuesta, enrollments, submissions) ==
    LET a == get_students_count(enrollments) IN
    IF a.raised THEN Raised
    ELSE LET c == get_quiz_submissions_count(submissions) IN
    IF c.raised THEN Raised
    ELSE LET alumnos     == a.value[1]
             contestadas == c.value[1]
         IN  Returned(
               [ Curso_ID           |-> curso,
                 Encuesta           |-> encuesta,
                 Alumnos_Inscritos  |-> alumnos,
                 Contestadas        |-> contestadas,
                 Pct_Contestadas    |-> porcentaje(contestadas, alumnos),
                 No_contestadas     |-> no_contestadas(alumnos, contestadas),
                 Pct_No_contestadas |->
                     porcentaje(no_contestadas(alumnos, contestadas), alumnos) ])

(***************************************************************************)
(* generate_report (src/main.py 101-148).                                  *)
(*                                                                         *)
(* remote is what the remote system answers to this job:                   *)
(*   post     [exc, status, body_ok]  the answer to the report request     *)
(*   doneAt   the first poll that reports workflow_state "completed"       *)
(*   raiseAt  the poll whose answer cannot be read (0: none)               *)
(*   status   [exc, status, body_ok]  the answer to the descriptor fetch   *)
(*   file     [exc, status, csv]      the answer to the download; csv is   *)
(*            None for unparsable content, else <<number of data rows>>    *)
(* The outcome is the returned pair (df, err), whether the call raised,    *)
(* and the requests that went out on the wire.                             *)
(***************************************************************************)
Msg(title, text, code) == [tag |-> title, text |-> text, code |-> code]

NoRequests == [post |-> 0, progress |-> 0, status |-> 0, file |-> 0]

Outcome(df, err, sent) == [df |-> df, err |-> err, raised |-> FALSE, sent |-> sent]

\* variants of the except clause: the exception is swallowed and nothing is
\* reported; there is no except clause and the exception leaves the job
Excepcion_tragada(quiz_title, sent) == Outcome(None, None, sent)

Excepcion_propagada(quiz_title, sent) ==
    [df |-> None, err |-> None, raised |-> TRUE, sent |-> sent]

\* the except clause of lines 147-148
Excepcion(quiz_title, sent) ==
    Outcome(None, Some(Msg(quiz_title, "Excepcion al generar reporte", 0)), sent)

ProgressAnswer(remote, attempt) ==
    IF attempt = remote.raiseAt THEN "raise"
    ELSE IF attempt >= remote.doneAt THEN "completed"
    ELSE "running"

\* variant of the loop: one iteration short
poll_loop_corto(remote) ==
    LET attempts == 1..(PollAttempts - 1)
        leaving  == { a \in attempts : ProgressAnswer(remote, a) # "running" }
    IN  IF leaving = {}
        THEN [exit |-> "else", polls |-> PollAttempts - 1]
        ELSE LET last == CHOOSE a \in leaving : \A b \in leaving : a <= b IN
             [ exit  |-> IF ProgressAnswer(remote, last) = "raise"
                         THEN "raise" ELSE "break",
               polls |-> last ]

\* the for / else of lines 122-129: the iterations range(120) are made in
\* order until the first one that leaves the loop (break on "completed", or
\* the exception of an unreadable answer); polls is the number of requests
\* made, exit is how the loop was left ("else": the range was exhausted)
poll_loop(remote) ==
    LET attempts == 1..PollAttempts
        leaving  == { a \in attempts : ProgressAnswer(remote, a) # "running" }
    IN  IF leaving = {}
        THEN [exit |-> "else", polls |-> PollAttempts]
        ELSE LET last == CHOOSE a \in leaving : \A b \in leaving : a <= b IN
             [ exit  |-> IF ProgressAnswer(remote, last) = "raise"
                         THEN "raise" ELSE "break",
               polls |-> last ]

\* lines 143-146: the parsed CSV with the two tag columns, one cell per row
TaggedFrame(course_id, quiz_title, nrows) ==
    [ Curso_ID |-> [r \in 1..nrows |-> course_id],
      Encuesta |-> [r \in 1..nrows |-> quiz_title],
      nrows    |-> nrows ]

\* variant of the status test: only 200 is accepted
RejectedStatus_solo200(status_code) == status_code # 200

\* line 114
RejectedStatus(status_code) == status_code \notin {200, 201}

generate_report(course_id, quiz_id, quiz_title, remote) ==
    IF BASE_URL = "" THEN Excepcion(quiz_title, NoRequests)
    ELSE LET s1 == [NoRequests EXCEPT !.post = 1] IN
    IF remote.post.exc THEN Excepcion(quiz_title, s1)
    ELSE IF RejectedStatus(remote.post.status)
    THEN Outcome(None,
                 Some(Msg(quiz_title, "Error al solicitar la generacion del reporte",
                          remote.post.status)), s1)
    ELSE IF ~remote.post.body_ok THEN Excepcion(quiz_title, s1)
    ELSE LET p  == poll_loop(remote)
             s2 == [s1 EXCEPT !.progress = p.polls] IN
    IF p.exit = "raise" THEN Excepcion(quiz_title, s2)
    ELSE IF p.exit = "else"
    THEN Outcome(None,
                 Some(Msg(quiz_title, "El reporte demoro demasiado en generarse", 0)), s2)
    ELSE LET s3 == [s2 EXCEPT !.status = 1] IN
    IF remote.status.exc THEN Excepcion(quiz_title, s3)
    ELSE IF remote.status.status # 200
    THEN Outcome(None,
                 Some(Msg(quiz_title, "Error al obtener el estado del reporte", 0)), s3)
    ELSE IF ~remote.status.body_ok THEN Excepcion(quiz_title, s3)
    ELSE LET s4 == [s3 EXCEPT !.file = 1] IN
    IF remote.file.exc THEN Excepcion(quiz_title, s4)
    ELSE IF remote.file.status # 200
    THEN Outcome(None,
                 Some(Msg(quiz_title, "Error al descargar el archivo del reporte", 0)), s4)
    ELSE IF remote.file.csv = None THEN Excepcion(quiz_title, s4)
    ELSE Outcome(Some(TaggedFrame(course_id, quiz_title, remote.file.csv[1])), None, s4)

(***************************************************************************)
(* The answers the remote system may give to one job.                      *)
(***************************************************************************)
GoodReply == [exc |-> FALSE, status |-> 200, body_ok |-> TRUE]

StatusCodes == {200, 201, 202, 204, 404, 500}

PostReplies ==
    { [exc |-> TRUE, status |-> 0, body_ok |-> FALSE] }
    \cup [exc : {FALSE}, status : StatusCodes, body_ok : BOOLEAN]

PollCases  == {1, 2, PollAttempts, PollAttempts + 1}
RaiseCases == {0, 1, PollAttempts}

StatusReplies ==
    { [exc |-> TRUE, status |-> 0, body_ok |-> FALSE] }
    \cup [exc : {FALSE}, status : {200, 404}, body_ok : BOOLEAN]

CsvCases == {None} \cup {Some(n) : n \in 0..MaxRows}

FileReplies ==
    { [exc |-> TRUE, status |-> 0, csv |-> None] }
    \cup [exc : {FALSE}, status : {200, 404}, csv : CsvCases]

Remotes ==
    [ post : PostReplies, doneAt : PollCases, raiseAt : RaiseCases,
      status : StatusReplies, file : FileReplies ]

BaseUrls == {"", "https://canvas"}

(***************************************************************************)
(* One report job on its own.                                              *)
(***************************************************************************)
BatchIdle ==
    /\ bpc = "idle"
    /\ answers = {}
    /\ encuestas = <<>>
    /\ futures = <<>>
    /\ futureRet = <<>>
    /\ yielded = {}
    /\ resultados = <<>>
    /\ errores = <<>>
    /\ retorno = None

JobIdle ==
    /\ jobSpec = None
    /\ jobRemote = None
    /\ jobOut = None

ReqIdle ==
    /\ reqServer = None
    /\ reqPaginated = FALSE
    /\ reqOut = None

PartIdle ==
    /\ partEnroll = None
    /\ partSubs = None
    /\ partOut = None

PoolIdle ==
    /\ ppc = "idle"
    /\ seleccion = <<>>
    /\ ppFutures = <<>>
    /\ ppRet = <<>>
    /\ ppYielded = {}
    /\ ppLista = <<>>

PureIdle ==
    /\ parseIn = <<>>
    /\ parseOut = None
    /\ cleanIn = <<>>
    /\ cleanOut = <<>>
    /\ sheetIn = <<>>
    /\ sheetOut = None

NothingShown ==
    [raised |-> FALSE, download |-> FALSE, warnings |-> <<>>, summary |-> <<>>]

\* a fresh session (lines 274-275): only surveys_data is set
UiFresh ==
    /\ upc = "idle"
    /\ surveys_data = None
    /\ report_ready = None
    /\ report_excel = None
    /\ report_errors = None
    /\ checked = {}
    /\ fetch_failed = <<>>
    /\ shown = NothingShown

InitJob ==
    /\ BASE_URL \in BaseUrls
    /\ PureIdle
    /\ PoolIdle
    /\ jobSpec \in {Some(e) : e \in SpecPool}
    /\ jobRemote \in {Some(r) : r \in Remotes}
    /\ jobOut = None
    /\ ReqIdle
    /\ PartIdle
    /\ BatchIdle
    /\ UiFresh

RunJob ==
    /\ jobOut = None
    /\ jobOut' = Some(generate_report(jobSpec[1].course_id, jobSpec[1].id,
                                      jobSpec[1].title, jobRemote[1]))
    /\ UNCHANGED <<BASE_URL, pureVars, poolVars,
                   jobSpec, jobRemote, reqVars, partVars, batchVars, uiVars>>

NextJob == RunJob

SpecJob == InitJob /\ [][NextJob]_vars

(***************************************************************************)
(* One call of the API client on its own.  The remote system serves up to  *)
(* MaxPages pages; page p holds up to MaxItems items, item k of page p     *)
(* being <<p, k>>; a next link points to a later page.                     *)
(***************************************************************************)
MaxPages == 3
MaxItems == 1

PageItems(p, n) == [k \in 1..n |-> <<p, k>>]

PageAnswers(p) ==
    { [exc |-> TRUE, status_code |-> 0, data |-> <<>>, next |-> 0] }
    \cup { [exc |-> FALSE, status_code |-> 404, data |-> <<>>, next |-> 0] }
    \cup { [exc |-> FALSE, status_code |-> 200, data |-> PageItems(p, n), next |-> nx] :
             n \in 0..MaxItems, nx \in {0} \cup ((p + 1)..MaxPages) }

Servers == { sv \in [1..MaxPages -> UNION { PageAnswers(p) : p \in 1..MaxPages }] :
               \A p \in 1..MaxPages : sv[p] \in PageAnswers(p) }

InitReq ==
    /\ BASE_URL \in BaseUrls
    /\ PureIdle
    /\ PoolIdle
    /\ reqServer \in { Some(sv) : sv \in Servers }
    /\ reqPaginated \in BOOLEAN
    /\ reqOut = None
    /\ JobIdle
    /\ PartIdle
    /\ BatchIdle
    /\ UiFresh

CallRequest ==
    /\ reqOut = None
    /\ reqOut' = Some(canvas_request(reqServer[1], reqPaginated))
    /\ UNCHANGED <<BASE_URL, pureVars, poolVars,
                   reqServer, reqPaginated, jobVars, partVars, batchVars, uiVars>>

NextReq == CallRequest

SpecReq == InitReq /\ [][NextReq]_vars

(***************************************************************************)
(* One participation record on its own.  The enrollments listing has one   *)
(* or two pages of up to MaxEnroll enrollments; the submissions listing    *)
(* holds up to MaxSubs submissions.                                        *)
(***************************************************************************)
MaxEnroll == 2
MaxSubs   == 2

Enrollments == { [user |-> [name |-> n]] : n \in {"Ana", "Test Student"} }

Failure404 == [exc |-> FALSE, status_code |-> 404, data |-> <<>>, next |-> 0]
Page(data, nx) == [exc |-> FALSE, status_code |-> 200, data |-> data, next |-> nx]

EnrollServers ==
    { << Failure404, Failure404 >> }
    \cup { << Page(d, 0), Failure404 >> : d \in SeqsUpTo(Enrollments, MaxEnroll) }
    \cup { << Page(d, 2), Failure404 >> : d \in SeqsUpTo(Enrollments, MaxEnroll) }
    \cup { << Page(d1, 2), Page(d2, 0) >> :
             d1 \in SeqsUpTo(Enrollments, MaxEnroll),
             d2 \in SeqsUpTo(Enrollments, MaxEnroll) }

SubmissionKinds ==
    { [user_id |-> 1, submitted_at |-> Some(1), finished_at |-> None],
      [user_id |-> 1, submitted_at |-> None,    finished_at |-> Some(2)],
      [user_id |-> 2, submitted_at |-> Some(1), finished_at |-> Some(2)],
      [user_id |-> 2, submitted_at |-> None,    finished_at |-> None],
      [user_id |-> 0, submitted_at |-> Some(1), finished_at |-> None] }

SubsServers ==
    { << Failure404 >> }
    \cup { << Page([is_dict |-> FALSE, quiz_submissions |-> q], 0) >> :
             q \in SeqsUpTo(SubmissionKinds, 1) }
    \cup { << Page([is_dict |-> TRUE, quiz_submissions |-> q], 0) >> :
             q \in SeqsUpTo(SubmissionKinds, MaxSubs) }

InitPart ==
    /\ BASE_URL \in BaseUrls
    /\ PureIdle
    /\ PoolIdle
    /\ partEnroll \in { Some(sv) : sv \in EnrollServers }
    /\ partSubs \in { Some(sv) : sv \in SubsServers }
    /\ partOut = None
    /\ JobIdle
    /\ ReqIdle
    /\ BatchIdle
    /\ UiFresh

ComputeParticipation ==
    /\ partOut = None
    /\ \E e \in SpecPool :
         partOut' = Some(obtener_participacion_encuesta(e.course_id, e.title,
                                                        partEnroll[1], partSubs[1]))
    /\ UNCHANGED <<BASE_URL, pureVars, poolVars,
                   partEnroll, partSubs, jobVars, reqVars, batchVars, uiVars>>

NextPart == ComputeParticipation

SpecPart == InitPart /\ [][NextPart]_vars

(***************************************************************************)
(* generar_reportes_en_paralelo (src/main.py 150-178).                     *)
(*                                                                         *)
(* Submission indices are 1-based here (enumerate is 0-based in the code). *)
(* The jobs share no state (each has its own session), so a job is two     *)
(* steps of the pool: a worker takes it from the queue, and it returns.    *)
(***************************************************************************)
RemoteOk(csv) ==
    [ post |-> GoodReply, doneAt |-> 1, raiseAt |-> 0, status |-> GoodReply,
      file |-> [exc |-> FALSE, status |-> 200, csv |-> csv] ]

\* the answers given to the jobs of a batch: an export of one row, an empty
\* one, a job that never completes
BatchRemotes ==
    { RemoteOk(Some(1)), RemoteOk(Some(0)),
      [RemoteOk(Some(1)) EXCEPT !.doneAt = PollAttempts + 1] }

\* one answer for each step a job can fail at, and a full export
FailingRemotes ==
    { RemoteOk(Some(MaxRows)),
      [RemoteOk(Some(MaxRows)) EXCEPT !.post.status = 404],
      [RemoteOk(Some(MaxRows)) EXCEPT !.doneAt = PollAttempts + 1],
      [RemoteOk(Some(MaxRows)) EXCEPT !.raiseAt = 1],
      [RemoteOk(Some(MaxRows)) EXCEPT !.status.status = 404],
      [RemoteOk(Some(MaxRows)) EXCEPT !.file.status = 404],
      RemoteOk(None) }

Batches == SeqsUpTo(SpecPool, MaxSpecs)

\* lines 151-161: the lists are empty and every spec is submitted to the pool
Submitted(batch) ==
    [ bpc |-> "running", encuestas |-> batch,
      futures |-> [i \in 1..Len(batch) |-> "queued"],
      futureRet |-> [i \in 1..Len(batch) |-> None],
      yielded |-> {}, resultados |-> <<>>, errores |-> <<>>, retorno |-> None ]

Running == { i \in 1..Len(encuestas) : futures[i] = "running" }

\* variant: a queued job is started whether or not a worker is free
WorkerTakes_sin_limite(i) ==
    /\ bpc = "running"
    /\ futures[i] = "queued"
    /\ \A j \in 1..(i - 1) : futures[j] # "queued"
    /\ futures' = [futures EXCEPT ![i] = "running"]
    /\ UNCHANGED <<outsideBatch, bpc, answers, encuestas, futureRet,
                   yielded, resultados, errores, retorno>>

\* a free worker of the pool takes the oldest queued job
WorkerTakes(i) ==
    /\ bpc = "running"
    /\ futures[i] = "queued"
    /\ \A j \in 1..(i - 1) : futures[j] # "queued"
    /\ Cardinality(Running) < max_workers
    /\ futures' = [futures EXCEPT ![i] = "running"]
    /\ UNCHANGED <<outsideBatch, bpc, answers, encuestas, futureRet,
                   yielded, resultados, errores, retorno>>

\* variant: the worker itself appends what its job returned to the lists
JobReturns_agrega(i) ==
    /\ bpc = "running"
    /\ futures[i] = "running"
    /\ \E remote \in answers :
         LET e   == encuestas[i]
             ret == generate_report(e.course_id, e.id, e.title, remote)
         IN  /\ futureRet' = [futureRet EXCEPT ![i] = Some(ret)]
             /\ resultados' = IF ret.df # None
                               THEN Append(resultados, <<i, ret.df[1]>>)
                               ELSE resultados
             /\ errores' = IF ret.err # None
                            THEN Append(errores, ret.err[1]) ELSE errores
    /\ futures' = [futures EXCEPT ![i] = "done"]
    /\ yielded' = yielded \cup {i}
    /\ UNCHANGED <<outsideBatch, bpc, answers, encuestas, retorno>>

\* the job of submission i returns (line 159: the arguments are those of e)
JobReturns(i) ==
    /\ bpc = "running"
    /\ futures[i] = "running"
    /\ \E remote \in answers :
         LET e == encuestas[i] IN
         futureRet' = [futureRet EXCEPT ![i] =
              Some(generate_report(e.course_id, e.id, e.title, remote))]
    /\ futures' = [futures EXCEPT ![i] = "done"]
    /\ UNCHANGED <<outsideBatch, bpc, answers, encuestas, yielded,
                   resultados, errores, retorno>>

\* variant: only the future of a job that produced a frame is yielded
Collect_solo_exitos(i) ==
    /\ bpc = "running"
    /\ futures[i] = "done"
    /\ i \notin yielded
    /\ futureRet[i][1].df # None
    /\ resultados' = Append(resultados, <<i, futureRet[i][1].df[1]>>)
    /\ yielded' = yielded \cup {i}
    /\ UNCHANGED <<outsideBatch, bpc, answers, encuestas, futures,
                   futureRet, errores, retorno>>

\* lines 162-171: as_completed yields the future of submission i
Collect(i) ==
    /\ bpc = "running"
    /\ futures[i] = "done"
    /\ i \notin yielded
    /\ LET encuesta    == encuestas[i]
           ingreso_idx == i
           ret         == futureRet[i][1]
       IN  IF ret.raised
           THEN /\ errores' = Append(errores,
                        Msg(encuesta.title, "Error procesando", 0))
                /\ UNCHANGED resultados
           ELSE /\ resultados' = IF ret.df # None
                                 THEN Append(resultados, <<ingreso_idx, ret.df[1]>>)
                                 ELSE resultados
                /\ errores' = IF ret.err # None
                              THEN Append(errores, ret.err[1])
                              ELSE errores
    /\ yielded' = yielded \cup {i}
    /\ UNCHANGED <<outsideBatch, bpc, answers, encuestas, futures,
                   futureRet, retorno>>

\* sorted(resultados, key=lambda x: x[0]) of line 177: a stable sort
RECURSIVE InsertByIdx(_, _)
InsertByIdx(sorted, x) ==
    IF sorted = <<>> THEN <<x>>
    ELSE IF x[1] < Head(sorted)[1] THEN <<x>> \o sorted
    ELSE <<Head(sorted)>> \o InsertByIdx(Tail(sorted), x)

RECURSIVE SortByIdx(_)
SortByIdx(s) ==
    IF s = <<>> THEN <<>>
    ELSE InsertByIdx(SortByIdx(SubSeq(s, 1, Len(s) - 1)), s[Len(s)])

\* variant of line 177: the results are returned in completion order
resultados_sin_ordenar == [k \in 1..Len(resultados) |-> resultados[k][2]]

resultados_ordenados == [k \in 1..Len(resultados) |-> SortByIdx(resultados)[k][2]]

\* lines 174-178: every future was yielded, the pool is shut down
Return ==
    /\ bpc = "running"
    /\ yielded = 1..Len(encuestas)
    /\ retorno' = Some([resultados_ordenados |-> resultados_ordenados,
                        errores |-> errores])
    /\ bpc' = "returned"
    /\ UNCHANGED <<outsideBatch, answers, encuestas, futures, futureRet,
                   yielded, resultados, errores>>

BatchSubmitted(batch) ==
    LET b == Submitted(batch) IN
    /\ bpc = b.bpc
    /\ encuestas = b.encuestas
    /\ futures = b.futures
    /\ futureRet = b.futureRet
    /\ yielded = b.yielded
    /\ resultados = b.resultados
    /\ errores = b.errores
    /\ retorno = b.retorno

InitBatch ==
    /\ BASE_URL \in BaseUrls
    /\ PureIdle
    /\ PoolIdle
    /\ JobIdle
    /\ ReqIdle
    /\ PartIdle
    /\ answers = BatchRemotes
    /\ \E batch \in Batches : BatchSubmitted(batch)
    /\ UiFresh

NextBatch ==
    \/ \E i \in 1..Len(encuestas) : WorkerTakes(i)
    \/ \E i \in 1..Len(encuestas) : JobReturns(i)
    \/ \E i \in 1..Len(encuestas) : Collect(i)
    \/ Return

SpecBatch == InitBatch /\ [][NextBatch]_vars

\* the same batch, of MaxSiblings jobs at most, each answered in any of the
\* ways a job can fail
MaxSiblings == 2

InitSiblings ==
    /\ BASE_URL \in BaseUrls
    /\ PureIdle
    /\ PoolIdle
    /\ JobIdle
    /\ ReqIdle
    /\ PartIdle
    /\ answers = FailingRemotes
    /\ \E batch \in SeqsUpTo(SpecPool, MaxSiblings) : BatchSubmitted(batch)
    /\ UiFresh

SpecSiblings == InitSiblings /\ [][NextBatch]_vars

(***************************************************************************)
(* The page (src/main.py 265-461).  A step is one run of the script: the   *)
(* operator presses "Buscar Encuestas", ticks or unticks a checkbox, or    *)
(* presses "Generar reporte general"; the last of these runs the report    *)
(* batch above and then stores the report.                                 *)
(***************************************************************************)
\* the characters str.isdigit accepts: the decimal digits, and the digits
\* that are not decimal, such as the superscripts
DecimalChars == {"0", "1", "2", "3", "4", "5", "6", "7", "8", "9"}
DigitChars == DecimalChars \cup {"SUPERSCRIPT TWO"}
SplitChars == {" ", "\t", "\n", ","}
SpaceChars == {" ", "\t", "\n"}

\* re.split(r'[\s,]+', text) of line 58: the pieces between the runs of
\* separators, the empty pieces at both ends included
RECURSIVE split_loop(_, _, _, _)
split_loop(text, piece, in_run, pieces) ==
    IF text = <<>> THEN Append(pieces, piece)
    ELSE IF Head(text) \in SplitChars
    THEN IF in_run THEN split_loop(Tail(text), piece, TRUE, pieces)
         ELSE split_loop(Tail(text), <<>>, TRUE, Append(pieces, piece))
    ELSE split_loop(Tail(text), Append(piece, Head(text)), FALSE, pieces)

\* str.strip
RECURSIVE lstrip(_)
lstrip(t) == IF t # <<>> /\ Head(t) \in SpaceChars THEN lstrip(Tail(t)) ELSE t

RECURSIVE rstrip(_)
rstrip(t) ==
    IF t # <<>> /\ t[Len(t)] \in SpaceChars
    THEN rstrip(SubSeq(t, 1, Len(t) - 1)) ELSE t

strip(t) == rstrip(lstrip(t))

\* str.isdigit on the characters of the model
isdigit(t) == t # <<>> /\ \A k \in 1..Len(t) : t[k] \in DigitChars

IsDigitPiece(t) == isdigit(strip(t))

\* lines 57-60
parse_course_ids(text) ==
    LET ids == split_loop(text, <<>>, FALSE, <<>>)
        kept == SelectSeq(ids, IsDigitPiece)
    IN  [k \in 1..Len(kept) |-> strip(kept[k])]

\* parse_course_ids on its own, over the texts of up to MaxText characters
MaxText == 4

ParseChars == {"1", "2", " ", ",", "\n", "x", "SUPERSCRIPT TWO"}

InitParse ==
    /\ BASE_URL = "https://canvas"
    /\ parseIn \in SeqsUpTo(ParseChars, MaxText)
    /\ parseOut = None
    /\ cleanIn = <<>>
    /\ cleanOut = <<>>
    /\ sheetIn = <<>>
    /\ sheetOut = None
    /\ PoolIdle
    /\ JobIdle
    /\ ReqIdle
    /\ PartIdle
    /\ BatchIdle
    /\ UiFresh

Parse ==
    /\ parseOut = None
    /\ parseOut' = Some(parse_course_ids(parseIn))
    /\ UNCHANGED <<BASE_URL, parseIn, cleanIn, cleanOut, sheetIn, sheetOut,
                   jobVars, reqVars, partVars, poolVars, batchVars, uiVars>>

NextParse == Parse

SpecParse == InitParse /\ [][NextParse]_vars

(***************************************************************************)
(* clean_string (src/main.py 25-30), over strings of up to MaxClean         *)
(* characters.                                                             *)
(***************************************************************************)
MaxClean == 3

CleanChars ==
    {" ", "a", "A", "(", ".", "LATIN CAPITAL LETTER E WITH ACUTE"}

\* str.lower, character by character
lower_char(c) ==
    IF c = "A" THEN "a"
    ELSE IF c = "E" THEN "e"
    ELSE IF c = "LATIN CAPITAL LETTER E WITH ACUTE"
    THEN "LATIN SMALL LETTER E WITH ACUTE"
    ELSE c

lower(t) == [k \in 1..Len(t) |-> lower_char(t[k])]

\* unicodedata.normalize('NFD', ...): the canonical decomposition of each
\* character
decompose(c) ==
    IF c = "LATIN SMALL LETTER E WITH ACUTE"
    THEN << "e", "COMBINING ACUTE ACCENT" >>
    ELSE IF c = "LATIN CAPITAL LETTER E WITH ACUTE"
    THEN << "E", "COMBINING ACUTE ACCENT" >>
    ELSE << c >>

RECURSIVE NFD(_)
NFD(t) == IF t = <<>> THEN <<>> ELSE decompose(Head(t)) \o NFD(Tail(t))

\* the classes of the pattern of line 28: \w, \s and the listed marks
WordChars == {"a", "e", "A", "E", "LATIN SMALL LETTER E WITH ACUTE",
              "LATIN CAPITAL LETTER E WITH ACUTE"}
KeptMarks == {".", ",", "!", "?", "-"}

IsKept(c) == c \in WordChars \cup SpaceChars \cup KeptMarks

\* the range \u0300-\u036f of line 29
IsNotCombining(c) == c # "COMBINING ACUTE ACCENT"

\* lines 25-30
clean_string(input_string) ==
    LET cleaned1 == lower(strip(input_string))
        cleaned2 == NFD(cleaned1)
        cleaned3 == SelectSeq(cleaned2, IsKept)
        cleaned4 == SelectSeq(cleaned3, IsNotCombining)
    IN  cleaned4

InitClean ==
    /\ BASE_URL = "https://canvas"
    /\ cleanIn \in SeqsUpTo(CleanChars, MaxClean)
    /\ cleanOut = <<>>
    /\ parseIn = <<>>
    /\ parseOut = None
    /\ sheetIn = <<>>
    /\ sheetOut = None
    /\ PoolIdle
    /\ JobIdle
    /\ ReqIdle
    /\ PartIdle
    /\ BatchIdle
    /\ UiFresh

\* clean_string is applied to the input, then to its own result
Clean ==
    /\ Len(cleanOut) < 2
    /\ cleanOut' = Append(cleanOut,
                          clean_string(IF cleanOut = <<>> THEN cleanIn
                                       ELSE cleanOut[Len(cleanOut)]))
    /\ UNCHANGED <<BASE_URL, parseIn, parseOut, cleanIn, sheetIn, sheetOut,
                   jobVars, reqVars, partVars, poolVars, batchVars, uiVars>>

NextClean == Clean

SpecClean == InitClean /\ [][NextClean]_vars

\* the quiz listing of a course as the remote system serves it: one page, or
\* an error (always an error for a course it does not know)
QuizServer(course_id, fails) ==
    IF fails \/ course_id \notin CourseIds
    THEN << Failure404 >>
    ELSE << Page(RemoteQuizzes(course_id), 0) >>

IsSurvey(q) == q.quiz_type \in SurveyTypes

\* variant of lines 65-66: a failed fetch is an error of the discovery
get_surveys_estricto(server) ==
    LET r == canvas_request(server, TRUE) IN
    IF r.raised \/ r.ret = None THEN Raised
    ELSE Returned(SelectSeq(r.ret[1], IsSurvey))

\* lines 62-68
get_surveys(server) ==
    LET r == canvas_request(server, TRUE) IN
    IF r.raised THEN Raised
    ELSE IF r.ret = None \/ r.ret[1] = <<>> THEN Returned(<<>>)
    ELSE Returned(SelectSeq(r.ret[1], IsSurvey))

\* the loop of lines 286-296 from position i on; fails[i] says whether the
\* listing fetch of ids[i] fails
RECURSIVE scan(_, _, _, _, _)
scan(ids, fails, i, surveys_by_course, all_surveys) ==
    IF i > Len(ids)
    THEN [raised |-> FALSE, by_course |-> surveys_by_course, all |-> all_surveys]
    ELSE LET course_id == ids[i]
             got == get_surveys(QuizServer(course_id, fails[i]))
         IN  IF got.raised
             THEN [raised |-> TRUE, by_course |-> surveys_by_course,
                   all |-> all_surveys]
             ELSE LET surveys == got.value[1] IN
                  scan(ids, fails, i + 1,
                       (course_id :> surveys) @@ surveys_by_course,
                       all_surveys \o [k \in 1..Len(surveys) |->
                                          SurveySpec(course_id, surveys[k])])

\* sorted(set(s["title"] for s in all_surveys)) of line 312
TitlesSorted == << "A", "B", "Q" >>

unique_titles(all_surveys) ==
    LET present(t) == \E k \in 1..Len(all_surveys) : all_surveys[k].title = t
    IN  SelectSeq(TitlesSorted, present)

\* line 318: the key of the checkbox of the idx-th title
CheckboxKey(ut, idx) == << ut, idx >>

\* the checkboxes rendered by a run (lines 307-319)
RenderedKeys(sd) ==
    IF sd = None \/ sd[1].all = <<>> THEN {}
    ELSE LET uts == unique_titles(sd[1].all) IN
         { CheckboxKey(uts[i], i) : i \in 1..Len(uts) }

\* lines 315-322, from the idx-th title on
RECURSIVE select_from(_, _, _, _)
select_from(all_surveys, uts, idx, ticked) ==
    IF idx > Len(uts) THEN <<>>
    ELSE LET ut == uts[idx]
             same(e) == e.title = ut
         IN  (IF CheckboxKey(ut, idx) \in ticked
              THEN SelectSeq(all_surveys, same) ELSE <<>>)
             \o select_from(all_surveys, uts, idx + 1, ticked)

seleccionadas(sd, ticked) ==
    IF sd = None \/ sd[1].all = <<>> THEN <<>>
    ELSE select_from(sd[1].all, unique_titles(sd[1].all), 1, ticked)

\* lines 395-438 from the idx-th result on (debug_mode is False): the rows
\* written to the sheet, each with its row number, its kind and the result
\* and data row it comes from
\* variant of lines 408-437: every result, empty or not, is written with its
\* header at the cursor
RECURSIVE write_blocks_con_header(_, _, _, _)
write_blocks_con_header(results, idx, idx_header, startrow) ==
    IF idx > Len(results) THEN [rows |-> <<>>, warnings |-> <<>>]
    ELSE LET df     == results[idx]
             header == << [row |-> startrow, kind |-> "header",
                           from |-> idx, r |-> 0] >>
             data   == [r \in 1..df.nrows |->
                          [row |-> startrow + r, kind |-> "data",
                           from |-> idx, r |-> r]]
             rest   == write_blocks_con_header(results, idx + 1, idx_header,
                                               startrow + df.nrows + 1)
         IN  [rows |-> header \o data \o rest.rows,
              warnings |-> (IF df.nrows = 0 THEN <<idx>> ELSE <<>>)
                           \o rest.warnings]

\* variant of line 434: the cursor advances by len(df) after the header block
RECURSIVE write_blocks_sin_contar_header(_, _, _, _)
write_blocks_sin_contar_header(results, idx, idx_header, startrow) ==
    IF idx > Len(results) THEN [rows |-> <<>>, warnings |-> <<>>]
    ELSE LET df == results[idx] IN
         IF df.nrows = 0
         THEN LET rest == write_blocks_sin_contar_header(results, idx + 1,
                                                         idx_header, startrow) IN
              [rows |-> rest.rows, warnings |-> <<idx>> \o rest.warnings]
         ELSE LET header == IF idx = idx_header
                            THEN << [row |-> startrow, kind |-> "header",
                                     from |-> idx, r |-> 0] >>
                            ELSE << >>
                  first  == startrow + Len(header)
                  data   == [r \in 1..df.nrows |->
                               [row |-> first + r - 1, kind |-> "data",
                                from |-> idx, r |-> r]]
                  rest   == write_blocks_sin_contar_header(results, idx + 1,
                                idx_header, startrow + df.nrows)
              IN  [rows |-> header \o data \o rest.rows, warnings |-> rest.warnings]

RECURSIVE write_blocks(_, _, _, _)
write_blocks(results, idx, idx_header, startrow) ==
    IF idx > Len(results) THEN [rows |-> <<>>, warnings |-> <<>>]
    ELSE LET df == results[idx] IN
         IF df.nrows = 0
         THEN LET rest == write_blocks(results, idx + 1, idx_header, startrow) IN
              [rows |-> rest.rows, warnings |-> <<idx>> \o rest.warnings]
         ELSE LET header == IF idx = idx_header
                            THEN << [row |-> startrow, kind |-> "header",
                                     from |-> idx, r |-> 0] >>
                            ELSE << >>
                  first  == startrow + Len(header)
                  data   == [r \in 1..df.nrows |->
                               [row |-> first + r - 1, kind |-> "data",
                                from |-> idx, r |-> r]]
                  rest   == write_blocks(results, idx + 1, idx_header,
                                         first + df.nrows)
              IN  [rows |-> header \o data \o rest.rows, warnings |-> rest.warnings]

assemble(results) ==
    LET nonempty == { i \in 1..Len(results) : results[i].nrows > 0 } IN
    IF nonempty = {}
    THEN [rows |-> <<>>, warnings |-> <<>>, st_error |-> TRUE]
    ELSE LET idx_header == CHOOSE i \in nonempty : \A j \in nonempty : i <= j
             w == write_blocks(results, 1, idx_header, 0)
         IN  [rows |-> w.rows, warnings |-> w.warnings, st_error |-> FALSE]

(***************************************************************************)
(* The spreadsheet assembly on its own, over the ordered sequences of up   *)
(* to MaxResults results of up to MaxSheetRows data rows each (the         *)
(* assembly runs when there is at least one result, line 384).             *)
(***************************************************************************)
MaxResults   == 3
MaxSheetRows == 2

Frames ==
    { TaggedFrame(e.course_id, e.title, n) : e \in SpecPool, n \in 0..MaxSheetRows }

InitSheet ==
    /\ BASE_URL = "https://canvas"
    /\ sheetIn \in SeqsUpTo(Frames, MaxResults) \ {<<>>}
    /\ sheetOut = None
    /\ parseIn = <<>>
    /\ parseOut = None
    /\ cleanIn = <<>>
    /\ cleanOut = <<>>
    /\ PoolIdle
    /\ JobIdle
    /\ ReqIdle
    /\ PartIdle
    /\ BatchIdle
    /\ UiFresh

Assemble ==
    /\ sheetOut = None
    /\ sheetOut' = Some(assemble(sheetIn))
    /\ UNCHANGED <<BASE_URL, parseIn, parseOut, cleanIn, cleanOut, sheetIn,
                   jobVars, reqVars, partVars, poolVars, batchVars, uiVars>>

NextSheet == Assemble

SpecSheet == InitSheet /\ [][NextSheet]_vars

\* lines 446-459, reached when a survey is selected
display(total, ready, excel, errors) ==
    IF total = 0 THEN NothingShown
    ELSE LET warnings == IF errors # None /\ errors[1] # <<>> THEN errors[1] ELSE <<>> IN
         IF ready = Some(TRUE) /\ excel # None
         THEN [NothingShown EXCEPT !.download = TRUE, !.warnings = warnings]
         ELSE [NothingShown EXCEPT !.warnings = warnings]

\* what the remote system serves for the participation of a survey: the
\* active student enrollments of the course and the submissions of the quiz
RemoteEnrollments(course_id) ==
    IF course_id = <<"1">>
    THEN << Page(<< [user |-> [name |-> "Ana"]],
                    [user |-> [name |-> "Test Student"]],
                    [user |-> [name |-> "Ana"]] >>, 0) >>
    ELSE << Page(<< [user |-> [name |-> "Ana"]] >>, 0) >>

RemoteSubmissions(quiz_id) ==
    IF quiz_id = 11
    THEN << Page([is_dict |-> TRUE, quiz_submissions |->
                  << [user_id |-> 1, submitted_at |-> Some(1), finished_at |-> None],
                     [user_id |-> 1, submitted_at |-> None, finished_at |-> Some(2)] >>],
                 0) >>
    ELSE IF quiz_id = 21
    THEN << Page([is_dict |-> TRUE, quiz_submissions |->
                  << [user_id |-> 1, submitted_at |-> Some(1), finished_at |-> None],
                     [user_id |-> 2, submitted_at |-> Some(1), finished_at |-> Some(2)] >>],
                 0) >>
    ELSE << Page([is_dict |-> TRUE, quiz_submissions |-> << >>], 0) >>

\* the orders in which as_completed may yield n futures
Orders(n) == { f \in [1..n -> 1..n] : \A i, j \in 1..n : f[i] = f[j] => i = j }

\* lines 343-356: one computation per selected survey, the records appended
\* in completion order; future.result() raises what the computation raised
participaciones(sel, order) ==
    LET result(k) ==
            LET s == sel[order[k]] IN
            obtener_participacion_encuesta(s.course_id, s.title,
                RemoteEnrollments(s.course_id), RemoteSubmissions(s.id))
    IN  IF \E k \in 1..Len(sel) : result(k).raised
        THEN Raised
        ELSE Returned([k \in 1..Len(sel) |-> result(k).value[1]])

\* lines 341 and 358-359: a dict with one key for each distinct course id
resumen_por_curso(ids, parts) ==
    [ cid \in Range(ids) |->
        LET of_course(part) == part.Curso_ID = cid IN SelectSeq(parts, of_course) ]

\* DataFrame(...).drop(columns=["Curso_ID"]) of line 366
drop_Curso_ID(part) ==
    [ Encuesta           |-> part.Encuesta,
      Alumnos_Inscritos  |-> part.Alumnos_Inscritos,
      Contestadas        |-> part.Contestadas,
      Pct_Contestadas    |-> part.Pct_Contestadas,
      No_contestadas     |-> part.No_contestadas,
      Pct_No_contestadas |-> part.Pct_No_contestadas ]

\* lines 362-369 from the i-th course id on: a numbered heading and a table
\* for every id of the input whose entry of the dict is not empty
RECURSIVE mostrar_resumen(_, _, _, _)
mostrar_resumen(ids, resumen, i, count) ==
    IF i > Len(ids) THEN <<>>
    ELSE LET curso == ids[i] IN
         IF resumen[curso] # <<>>
         THEN << [ count |-> count, curso |-> curso,
                   rows |-> [k \in 1..Len(resumen[curso]) |->
                               drop_Curso_ID(resumen[curso][k])] ] >>
              \o mostrar_resumen(ids, resumen, i + 1, count + 1)
         ELSE mostrar_resumen(ids, resumen, i + 1, count)

\* lines 307-461: what a run of the script displays below the search button
render(sd, ticked, order, ready, excel, errors) ==
    LET sel == seleccionadas(sd, ticked) IN
    IF sel = <<>> THEN NothingShown
    ELSE LET parts == participaciones(sel, order) IN
         IF parts.raised THEN [NothingShown EXCEPT !.raised = TRUE]
         ELSE [ display(Len(sel), ready, excel, errors) EXCEPT
                  !.summary = mostrar_resumen(sd[1].ids,
                                  resumen_por_curso(sd[1].ids, parts.value[1]),
                                  1, 1) ]

\* the texts the operator types in the model
Inputs ==
    { << "a" >>,
      << "1" >>,
      << "1", ",", " ", "2" >>,
      << "1", " ", "x", ",", "1" >>,
      << "3", "\n", "2" >> }

\* variant of lines 302-305: the report state is cleared only when course
\* ids were found
Buscar_sin_limpiar(text) ==
    /\ upc = "idle"
    /\ LET ids == parse_course_ids(text) IN
       IF ids = <<>>
       THEN /\ surveys_data' = None
            /\ fetch_failed' = <<>>
            /\ UNCHANGED reportVars
            /\ checked' = {}
            /\ shown' = NothingShown
       ELSE \E fails \in [1..Len(ids) -> BOOLEAN] :
            LET found == scan(ids, fails, 1, <<>>, <<>>) IN
            IF found.raised
            THEN /\ shown' = [NothingShown EXCEPT !.raised = TRUE]
                 /\ UNCHANGED <<surveys_data, fetch_failed, reportVars, checked>>
            ELSE LET sd == Some([by_course |-> found.by_course,
                                 all |-> found.all, ids |-> ids])
                 IN  /\ surveys_data' = sd
                     /\ fetch_failed' = fails
                     /\ report_ready' = Some(FALSE)
                     /\ report_excel' = None
                     /\ report_errors' = None
                     /\ checked' = checked \cap RenderedKeys(sd)
                     /\ \E order \in Orders(Len(seleccionadas(sd, checked'))) :
                          shown' = render(sd, checked', order,
                                          Some(FALSE), None, None)
    /\ UNCHANGED <<BASE_URL, pureVars, poolVars,
                   jobVars, reqVars, partVars, batchVars, upc>>

\* lines 277-305 and the rest of that run
Buscar(text) ==
    /\ upc = "idle"
    /\ LET ids == parse_course_ids(text) IN
       IF ids = <<>>
       THEN /\ surveys_data' = None
            /\ fetch_failed' = <<>>
            /\ report_ready' = Some(FALSE)
            /\ report_excel' = None
            /\ report_errors' = None
            /\ checked' = {}
            /\ shown' = NothingShown
       ELSE \E fails \in [1..Len(ids) -> BOOLEAN] :
            LET found == scan(ids, fails, 1, <<>>, <<>>) IN
            IF found.raised
            THEN /\ shown' = [NothingShown EXCEPT !.raised = TRUE]
                 /\ UNCHANGED <<surveys_data, fetch_failed, reportVars, checked>>
            ELSE LET sd == Some([by_course |-> found.by_course,
                                 all |-> found.all, ids |-> ids])
                 IN  /\ surveys_data' = sd
                     /\ fetch_failed' = fails
                     /\ report_ready' = Some(FALSE)
                     /\ report_excel' = None
                     /\ report_errors' = None
                     /\ checked' = checked \cap RenderedKeys(sd)
                     /\ \E order \in Orders(Len(seleccionadas(sd, checked'))) :
                          shown' = render(sd, checked', order,
                                          Some(FALSE), None, None)
    /\ UNCHANGED <<BASE_URL, pureVars, poolVars,
                   jobVars, reqVars, partVars, batchVars, upc>>

\* a checkbox is ticked or unticked (lines 317-322) and the script runs
Toggle(key) ==
    /\ upc = "idle"
    /\ key \in RenderedKeys(surveys_data)
    /\ checked' = (checked \ {key}) \cup ({key} \ checked)
    /\ \E order \in Orders(Len(seleccionadas(surveys_data, checked'))) :
         shown' = render(surveys_data, checked', order,
                         report_ready, report_excel, report_errors)
    /\ UNCHANGED <<BASE_URL, pureVars, poolVars,
                   jobVars, reqVars, partVars, batchVars, upc,
                   surveys_data, fetch_failed, reportVars>>

\* line 371-373: the button is pressed and the batch is submitted
Generar ==
    /\ upc = "idle"
    /\ Len(seleccionadas(surveys_data, checked)) > 0
    /\ upc' = "generating"
    /\ answers' = BatchRemotes
    /\ LET b == Submitted(seleccionadas(surveys_data, checked)) IN
       /\ bpc' = b.bpc
       /\ encuestas' = b.encuestas
       /\ futures' = b.futures
       /\ futureRet' = b.futureRet
       /\ yielded' = b.yielded
       /\ resultados' = b.resultados
       /\ errores' = b.errores
       /\ retorno' = b.retorno
    /\ UNCHANGED <<BASE_URL, pureVars, poolVars,
                   jobVars, reqVars, partVars, surveys_data, fetch_failed,
                   reportVars, checked, shown>>

\* variant of lines 384 and 440-442: the report state is stored whether or
\* not the batch returned a result
StoreReport_guarda_siempre ==
    /\ upc = "generating"
    /\ bpc = "returned"
    /\ LET results == retorno[1].resultados_ordenados IN
       /\ report_excel' = IF results # <<>> THEN Some(assemble(results)) ELSE None
       /\ report_ready' = Some(results # <<>>)
       /\ report_errors' = Some(retorno[1].errores)
    /\ \E order \in Orders(Len(seleccionadas(surveys_data, checked))) :
         shown' = render(surveys_data, checked, order,
                         report_ready', report_excel', report_errors')
    /\ upc' = "idle"
    /\ bpc' = "idle"
    /\ answers' = {}
    /\ encuestas' = <<>>
    /\ futures' = <<>>
    /\ futureRet' = <<>>
    /\ yielded' = {}
    /\ resultados' = <<>>
    /\ errores' = <<>>
    /\ retorno' = None
    /\ UNCHANGED <<BASE_URL, pureVars, poolVars,
                   jobVars, reqVars, partVars, surveys_data, fetch_failed,
                   checked>>

\* lines 373-459: the batch has returned; the report is assembled and stored
StoreReport ==
    /\ upc = "generating"
    /\ bpc = "returned"
    /\ LET results == retorno[1].resultados_ordenados IN
       IF results # <<>>
       THEN /\ report_excel' = Some(assemble(results))
            /\ report_ready' = Some(TRUE)
            /\ report_errors' = Some(retorno[1].errores)
       ELSE UNCHANGED reportVars
    /\ \E order \in Orders(Len(seleccionadas(surveys_data, checked))) :
         shown' = render(surveys_data, checked, order,
                         report_ready', report_excel', report_errors')
    /\ upc' = "idle"
    /\ bpc' = "idle"
    /\ answers' = {}
    /\ encuestas' = <<>>
    /\ futures' = <<>>
    /\ futureRet' = <<>>
    /\ yielded' = {}
    /\ resultados' = <<>>
    /\ errores' = <<>>
    /\ retorno' = None
    /\ UNCHANGED <<BASE_URL, pureVars, poolVars,
                   jobVars, reqVars, partVars, surveys_data, fetch_failed,
                   checked>>

InitUI ==
    /\ BASE_URL \in BaseUrls
    /\ PureIdle
    /\ PoolIdle
    /\ JobIdle
    /\ ReqIdle
    /\ PartIdle
    /\ BatchIdle
    /\ UiFresh

NextUI ==
    \/ \E text \in Inputs : Buscar(text)
    \/ \E key \in RenderedKeys(surveys_data) : Toggle(key)
    \/ Generar
    \/ \E i \in 1..Len(encuestas) : WorkerTakes(i)
    \/ \E i \in 1..Len(encuestas) : JobReturns(i)
    \/ \E i \in 1..Len(encuestas) : Collect(i)
    \/ Return
    \/ StoreReport

Spec == InitUI /\ [][NextUI]_vars

(***************************************************************************)
(* The report batch with every remote call returning: the threads of the   *)
(* pool and the orchestrating thread are scheduled by the operating        *)
(* system, so a step that stays possible is eventually taken.  The batch   *)
(* has up to MaxSpecs jobs that end in any of three ways, or up to         *)
(* MaxExtra jobs more than the pool has workers, none of which completes   *)
(* in time.                                                                *)
(***************************************************************************)
MaxExtra == 1

\* the answer given to the report jobs of the run: none completes in time
PoolRemotes == { [RemoteOk(Some(1)) EXCEPT !.doneAt = PollAttempts + 1] }

LiveRemotes ==
    { RemoteOk(Some(1)),
      [RemoteOk(Some(1)) EXCEPT !.doneAt = PollAttempts + 1],
      [RemoteOk(Some(1)) EXCEPT !.raiseAt = 1] }

SameSpec(n) == [i \in 1..n |-> SurveySpec(<<"1">>, RemoteQuizzes(<<"1">>)[1])]

InitLive ==
    /\ BASE_URL = "https://canvas"
    /\ PureIdle
    /\ PoolIdle
    /\ JobIdle
    /\ ReqIdle
    /\ PartIdle
    /\ \/ /\ answers = LiveRemotes
          /\ \E n \in 1..MaxSpecs : BatchSubmitted(SameSpec(n))
       \/ /\ answers = PoolRemotes
          /\ \E n \in (MaxSpecs + 1)..(max_workers + MaxExtra) :
                BatchSubmitted(SameSpec(n))
    /\ UiFresh

SpecLive == InitLive /\ [][NextBatch]_vars /\ WF_vars(NextBatch)

(***************************************************************************)
(* The two worker pools of one run of the script in which "Generar reporte *)
(* general" was pressed: the participation batch of lines 343-356 runs to  *)
(* its end, then the report batch is submitted for the same selection.     *)
(* The selection has up to MaxWaiting surveys more than the larger pool    *)
(* has workers.                                                            *)
(***************************************************************************)
MaxWaiting == 1

PartRunning == { i \in 1..Len(seleccion) : ppFutures[i] = "running" }

\* a free worker of the pool of line 344 takes the oldest queued computation
PartWorkerTakes(i) ==
    /\ ppc = "running"
    /\ ppFutures[i] = "queued"
    /\ \A j \in 1..(i - 1) : ppFutures[j] # "queued"
    /\ Cardinality(PartRunning) < max_workers_participacion
    /\ ppFutures' = [ppFutures EXCEPT ![i] = "running"]
    /\ UNCHANGED <<BASE_URL, jobVars, reqVars, partVars, pureVars, batchVars,
                   uiVars, ppc, seleccion, ppRet, ppYielded, ppLista>>

\* lines 346-352: the computation of submission i returns
PartJobReturns(i) ==
    /\ ppc = "running"
    /\ ppFutures[i] = "running"
    /\ LET s == seleccion[i] IN
       ppRet' = [ppRet EXCEPT ![i] =
            Some(obtener_participacion_encuesta(s.course_id, s.title,
                     RemoteEnrollments(s.course_id), RemoteSubmissions(s.id)))]
    /\ ppFutures' = [ppFutures EXCEPT ![i] = "done"]
    /\ UNCHANGED <<BASE_URL, jobVars, reqVars, partVars, pureVars, batchVars,
                   uiVars, ppc, seleccion, ppYielded, ppLista>>

\* lines 355-356: as_completed yields the future of submission i;
\* future.result() raises what the computation raised
PartCollect(i) ==
    /\ ppc = "running"
    /\ ppFutures[i] = "done"
    /\ i \notin ppYielded
    /\ IF ppRet[i][1].raised
       THEN /\ ppc' = "raised"
            /\ UNCHANGED ppLista
       ELSE /\ ppLista' = Append(ppLista, ppRet[i][1].value[1])
            /\ UNCHANGED ppc
    /\ ppYielded' = ppYielded \cup {i}
    /\ UNCHANGED <<BASE_URL, jobVars, reqVars, partVars, pureVars, batchVars,
                   uiVars, seleccion, ppFutures, ppRet>>

\* the end of the with block of line 344: every future was yielded
PartJoin ==
    /\ ppc = "running"
    /\ ppYielded = 1..Len(seleccion)
    /\ ppc' = "done"
    /\ UNCHANGED <<BASE_URL, jobVars, reqVars, partVars, pureVars, batchVars,
                   uiVars, seleccion, ppFutures, ppRet, ppYielded, ppLista>>

\* lines 371-373: the button was pressed, the report batch is submitted
StartReports ==
    /\ ppc = "done"
    /\ bpc = "idle"
    /\ LET b == Submitted(seleccion) IN
       /\ bpc' = b.bpc
       /\ encuestas' = b.encuestas
       /\ futures' = b.futures
       /\ futureRet' = b.futureRet
       /\ yielded' = b.yielded
       /\ resultados' = b.resultados
       /\ errores' = b.errores
       /\ retorno' = b.retorno
    /\ UNCHANGED <<outsideBatch, answers>>

InitPools ==
    /\ BASE_URL = "https://canvas"
    /\ PureIdle
    /\ JobIdle
    /\ ReqIdle
    /\ PartIdle
    /\ UiFresh
    /\ \E n \in 1..(max_workers_participacion + MaxWaiting) :
         /\ seleccion = [i \in 1..n |-> SurveySpec(<<"1">>, RemoteQuizzes(<<"1">>)[1])]
         /\ ppFutures = [i \in 1..n |-> "queued"]
         /\ ppRet = [i \in 1..n |-> None]
    /\ ppc = "running"
    /\ ppYielded = {}
    /\ ppLista = <<>>
    /\ bpc = "idle"
    /\ answers = PoolRemotes
    /\ encuestas = <<>>
    /\ futures = <<>>
    /\ futureRet = <<>>
    /\ yielded = {}
    /\ resultados = <<>>
    /\ errores = <<>>
    /\ retorno = None

NextPools ==
    \/ \E i \in 1..Len(seleccion) : PartWorkerTakes(i)
    \/ \E i \in 1..Len(seleccion) : PartJobReturns(i)
    \/ \E i \in 1..Len(seleccion) : PartCollect(i)
    \/ PartJoin
    \/ StartReports
    \/ \E i \in 1..Len(encuestas) : WorkerTakes(i)
    \/ \E i \in 1..Len(encuestas) : JobReturns(i)
    \/ \E i \in 1..Len(encuestas) : Collect(i)
    \/ Return

SpecPools == InitPools /\ [][NextPools]_vars

(***************************************************************************)
(* Properties of the report job and of the report batch.                   *)
(***************************************************************************)
Count(seq, m) == Cardinality({ k \in 1..Len(seq) : seq[k] = m })

\* the submission indices whose job produced a frame, and the k-th of them
Succeeded == { i \in 1..Len(encuestas) : futureRet[i] # None /\ futureRet[i][1].df # None }
Failed    == { i \in 1..Len(encuestas) : futureRet[i] # None /\ futureRet[i][1].df = None }
KthOf(S, k) == CHOOSE i \in S : Cardinality({ j \in S : j < i }) = k - 1

RowsTagged(df, e) ==
    \A r \in 1..df.nrows : df.Curso_ID[r] = e.course_id /\ df.Encuesta[r] = e.title

\* C1: whatever the completion order, the returned successes are those of the
\* successful jobs in increasing submission index, and every row of the k-th
\* one is tagged with the course id and the title of the spec at that index.
C1_OrderRestored ==
    bpc = "returned" =>
        LET rs == retorno[1].resultados_ordenados IN
        /\ Len(rs) = Cardinality(Succeeded)
        /\ \A k \in 1..Len(rs) :
             LET i == KthOf(Succeeded, k) IN
             /\ rs[k] = futureRet[i][1].df[1]
             /\ RowsTagged(rs[k], encuestas[i])

\* two non-empty results of different specs were collected against the
\* submission order, and the batch has returned
C1_Witness ==
    /\ bpc = "returned"
    /\ \E k, l \in 1..Len(resultados) :
         /\ k < l
         /\ resultados[k][1] > resultados[l][1]
         /\ resultados[k][2].nrows > 0
         /\ resultados[l][2].nrows > 0
         /\ encuestas[resultados[k][1]] # encuestas[resultados[l][1]]

\* C2: at the return, successes plus error entries equal the specs submitted.
C2_NothingDropped ==
    bpc = "returned" =>
        Len(retorno[1].resultados_ordenados) + Len(retorno[1].errores)
            = Len(encuestas)

C2_Witness ==
    /\ bpc = "returned"
    /\ Len(encuestas) >= 2
    /\ Len(retorno[1].resultados_ordenados) >= 1
    /\ Len(retorno[1].errores) >= 1

\* C3: a job that fails at any step returns, without raising, a null result
\* and one error tagged with its survey title; the batch returns exactly one
\* error entry for each failed job and the frame of every other job.
C3_FailureIsolated ==
    bpc = "returned" =>
        /\ \A i \in 1..Len(encuestas) :
             LET o == futureRet[i][1] IN
             /\ ~o.raised
             /\ o.df = None => (o.err # None /\ o.err[1].tag = encuestas[i].title)
             /\ o.df # None => o.err = None
        /\ Len(retorno[1].errores) = Cardinality(Failed)
        /\ \A i \in Failed :
             LET m == futureRet[i][1].err[1] IN
             Count(retorno[1].errores, m)
                 = Cardinality({ j \in Failed : futureRet[j][1].err[1] = m })
        /\ \A i \in Succeeded :
             \E k \in 1..Len(retorno[1].resultados_ordenados) :
                 /\ i = KthOf(Succeeded, k)
                 /\ retorno[1].resultados_ordenados[k] = futureRet[i][1].df[1]

\* one job timed out and its sibling's frame was returned
C3_Witness ==
    /\ bpc = "returned"
    /\ \E i \in Failed, j \in Succeeded :
         /\ futureRet[i][1].err[1].text = "El reporte demoro demasiado en generarse"
         /\ futureRet[i][1].err[1] \in Range(retorno[1].errores)
         /\ futureRet[j][1].df[1] \in Range(retorno[1].resultados_ordenados)

\* the job got as far as polling: the report request was accepted
ReachesPolling ==
    /\ BASE_URL # ""
    /\ ~jobRemote[1].post.exc
    /\ jobRemote[1].post.status \in {200, 201}
    /\ jobRemote[1].post.body_ok

SubmissionError(o) ==
    /\ o.df = None
    /\ o.err # None
    /\ o.err[1].text = "Error al solicitar la generacion del reporte"

\* C5 as stated: a status outside 200..299 is rejected at once with no
\* further request, and every 2xx answer is accepted and polled.
C5_Original ==
    (jobOut # None /\ BASE_URL # "" /\ ~jobRemote[1].post.exc) =>
        LET o == jobOut[1]
            status_code == jobRemote[1].post.status
        IN  /\ status_code \notin 200..299
                => /\ SubmissionError(o)
                   /\ o.sent = [post |-> 1, progress |-> 0, status |-> 0, file |-> 0]
            /\ (status_code \in 200..299 /\ jobRemote[1].post.body_ok)
                => (~SubmissionError(o) /\ o.sent.progress >= 1)

\* C5 (amended): a submission answered with any status other than 200 or 201
\* (202 and 204 included) fails at once with the submission error carrying
\* that status and issues no poll, descriptor or download request; one
\* answered with 200 or 201 is never rejected, and with a readable body (id
\* and progress_url) it goes on to polling.
C5_Amended ==
    (jobOut # None /\ BASE_URL # "" /\ ~jobRemote[1].post.exc) =>
        LET o == jobOut[1]
            status_code == jobRemote[1].post.status
        IN  /\ status_code \notin {200, 201}
                => /\ SubmissionError(o)
                   /\ o.err[1].code = status_code
                   /\ o.err[1].tag = jobSpec[1].title
                   /\ o.sent = [post |-> 1, progress |-> 0, status |-> 0, file |-> 0]
            /\ status_code \in {200, 201}
                => /\ ~SubmissionError(o)
                   /\ jobRemote[1].post.body_ok => o.sent.progress >= 1

C5_Witness ==
    /\ jobOut # None
    /\ BASE_URL # ""
    /\ ~jobRemote[1].post.exc
    /\ jobRemote[1].post.status = 202
    /\ SubmissionError(jobOut[1])
    /\ jobOut[1].sent.progress = 0

\* C6 as stated: when the generate handler finishes, every error message the
\* batch returned is stored in report_errors, also when no job succeeded.
C6_Original ==
    [][ (upc = "generating" /\ upc' = "idle") =>
            \A k \in 1..Len(retorno[1].errores) :
                /\ report_errors' # None
                /\ retorno[1].errores[k] \in Range(report_errors'[1]) ]_vars

\* the pages a paginated call goes through: from url 1 along the next links,
\* up to and including the first page that fails
RECURSIVE ChainFrom(_, _)
ChainFrom(server, url) ==
    IF url = 0 THEN <<>>
    ELSE IF server[url].exc \/ server[url].status_code >= 400 THEN <<url>>
    ELSE <<url>> \o ChainFrom(server, server[url].next)

PageFails(server, url) == server[url].exc \/ server[url].status_code >= 400

RECURSIVE Concat(_, _)
Concat(server, chain) ==
    IF chain = <<>> THEN <<>>
    ELSE server[Head(chain)].data \o Concat(server, Tail(chain))

\* C7: a paginated call over a chain of pages that all succeed returns the
\* items of the pages of the chain, concatenated in chain order, having made
\* one request per page of the chain and none beyond the page without next
\* link; if a page of the chain fails the call returns the failure value
\* None, which holds no item of the pages fetched before.
C7_Pagination ==
    (reqOut # None /\ reqPaginated /\ BASE_URL # "") =>
        LET server == reqServer[1]
            chain  == ChainFrom(server, 1)
            o      == reqOut[1]
        IN  /\ ~o.raised
            /\ o.requests = Len(chain)
            /\ IF \E k \in 1..Len(chain) : PageFails(server, chain[k])
               THEN o.ret = None
               ELSE /\ o.ret = Some(Concat(server, chain))
                    /\ server[chain[Len(chain)]].next = 0

\* a chain of two pages or more, all answered, with items on two of them
C7_Witness ==
    /\ reqOut # None
    /\ reqPaginated
    /\ reqOut[1].ret # None
    /\ reqOut[1].requests >= 2
    /\ \E i, j \in 1..Len(reqOut[1].ret[1]) :
         i < j /\ reqOut[1].ret[1][i][1] < reqOut[1].ret[1][j][1]

\* what the scan records when the listing fetch of ids[i] fails exactly where
\* fails[i] holds: the surveys of the other courses, in the order of ids
RECURSIVE ExpectedAll(_, _, _)
ExpectedAll(ids, fails, i) ==
    IF i > Len(ids) THEN <<>>
    ELSE LET quizzes == IF fails[i] \/ ids[i] \notin CourseIds
                        THEN <<>> ELSE RemoteQuizzes(ids[i])
             kept == { k \in 1..Len(quizzes) :
                         quizzes[k].quiz_type \in {"survey", "graded_survey"} }
             RECURSIVE Pick(_)
             Pick(k) == IF k > Len(quizzes) THEN <<>>
                        ELSE (IF k \in kept
                              THEN << [course_id |-> ids[i],
                                       title |-> quizzes[k].title,
                                       id |-> quizzes[k].id,
                                       quiz_type |-> quizzes[k].quiz_type] >>
                              ELSE <<>>) \o Pick(k + 1)
         IN  Pick(1) \o ExpectedAll(ids, fails, i + 1)

\* C9: with the base URL set a search never raises, whichever listing fetches
\* fail; every course id of the input is scanned, a course whose fetch failed
\* or that has no quiz yields the empty sequence, and the surveys of all the
\* other courses are recorded in the order of the operator's input.
C9_DiscoveryGoesOn ==
    BASE_URL # "" =>
        /\ ~shown.raised
        /\ surveys_data # None =>
             LET sd == surveys_data[1] IN
             /\ Len(fetch_failed) = Len(sd.ids)
             /\ sd.all = ExpectedAll(sd.ids, fetch_failed, 1)
             /\ \A i \in 1..Len(sd.ids) :
                  ( /\ fetch_failed[i] \/ RemoteQuizzes(sd.ids[i]) = <<>>
                    /\ \A j \in (i + 1)..Len(sd.ids) : sd.ids[j] # sd.ids[i] )
                  => sd.by_course[sd.ids[i]] = <<>>

\* the fetch for the first course failed and surveys of a later course are
\* recorded
C9_Witness ==
    /\ surveys_data # None
    /\ Len(surveys_data[1].ids) >= 2
    /\ fetch_failed[1]
    /\ surveys_data[1].by_course[surveys_data[1].ids[1]] = <<>>
    /\ surveys_data[1].all # <<>>

\* C10: a participation record has No contestadas = max(enrolled - answered,
\* 0), never negative, also when answered exceeds enrolled; when enrolled is
\* 0 both percentages are the literal "0%" whatever the answered count (the
\* quotient by enrolled is not evaluated).
C10_Unanswered ==
    (partOut # None /\ ~partOut[1].raised) =>
        LET rec      == partOut[1].value[1]
            enrolled == rec.Alumnos_Inscritos
            answered == rec.Contestadas
        IN  /\ enrolled >= 0 /\ answered >= 0
            /\ rec.No_contestadas >= 0
            /\ rec.No_contestadas
                 = IF enrolled - answered > 0 THEN enrolled - answered ELSE 0
            /\ enrolled = 0 =>
                 (rec.Pct_Contestadas = <<0>> /\ rec.Pct_No_contestadas = <<0>>)

\* more students answered than are enrolled, and nobody is enrolled
C10_Witness ==
    /\ partOut # None
    /\ ~partOut[1].raised
    /\ partOut[1].value[1].Alumnos_Inscritos = 0
    /\ partOut[1].value[1].Contestadas >= 2
    /\ partOut[1].value[1].No_contestadas = 0
    /\ partOut[1].value[1].Pct_Contestadas = <<0>>

\* C8 as stated, for the report job: with the base URL unset the job raises
\* the configuration error, attempts no request and reports no per-job error.
C8_Original ==
    (jobOut # None /\ BASE_URL = "") =>
        /\ jobOut[1].raised
        /\ jobOut[1].err = None
        /\ jobOut[1].sent = NoRequests

(***************************************************************************)
(* Properties of the participation calculator, of the parser and of the    *)
(* text normalizer.                                                        *)
(***************************************************************************)
\* the submissions fetched: the quiz_submissions of the body of the one page
FetchedSubmissions ==
    IF partSubs[1][1].status_code = 200 /\ partSubs[1][1].data.is_dict
    THEN partSubs[1][1].data.quiz_submissions ELSE <<>>

HasTimestamp(s) == s.submitted_at # <<>> \/ s.finished_at # <<>>

\* C11: the answered count is the number of distinct student identifiers among
\* the fetched submissions that carry a submitted-at or a finished-at
\* timestamp: a student is counted once however many submissions they made,
\* a submission with neither timestamp counts for nothing, and every student
\* with a timestamped submission is counted.
C11_AnsweredCount ==
    (partOut # None /\ ~partOut[1].raised) =>
        LET subs     == FetchedSubmissions
            students == { subs[k].user_id : k \in 1..Len(subs) } \ {0}
            answered == { u \in students :
                            \E k \in 1..Len(subs) :
                                subs[k].user_id = u /\ HasTimestamp(subs[k]) }
        IN  partOut[1].value[1].Contestadas = Cardinality(answered)

\* one student submitted twice and is counted once
C11_Witness ==
    /\ partOut # None
    /\ ~partOut[1].raised
    /\ Len(FetchedSubmissions) = 2
    /\ FetchedSubmissions[1].user_id = FetchedSubmissions[2].user_id
    /\ FetchedSubmissions[1].user_id # 0
    /\ HasTimestamp(FetchedSubmissions[1])
    /\ HasTimestamp(FetchedSubmissions[2])
    /\ partOut[1].value[1].Contestadas = 1

\* the rows of the summary shown that are those of the survey titled title
\* of the course curso, over all the groups
ShownRows(curso, title) ==
    UNION { { <<g, k>> : k \in { r \in 1..Len(shown.summary[g].rows) :
                                    shown.summary[g].rows[r].Encuesta = title } } :
            g \in { h \in 1..Len(shown.summary) : shown.summary[h].curso = curso } }

\* C12 as stated: for any input, one that repeats a course id included, the
\* summary shown holds exactly one record for each selected spec (as many
\* rows for a course and title as there are selected specs with them), the
\* groups following the order of the operator's input.
C12_Original ==
    (upc = "idle" /\ ~shown.raised) =>
        LET sel == seleccionadas(surveys_data, checked) IN
        /\ \A i \in 1..Len(sel) :
             Cardinality(ShownRows(sel[i].course_id, sel[i].title))
                 = Cardinality({ j \in 1..Len(sel) :
                                   /\ sel[j].course_id = sel[i].course_id
                                   /\ sel[j].title = sel[i].title })
        /\ \A g, h \in 1..Len(shown.summary) :
             g < h =>
                 \E a, b \in 1..Len(surveys_data[1].ids) :
                     /\ a < b
                     /\ surveys_data[1].ids[a] = shown.summary[g].curso
                     /\ surveys_data[1].ids[b] = shown.summary[h].curso

\* the tokens of a text: its maximal runs of characters that are neither
\* whitespace nor a comma, by the position where each starts
IsSeparator(c) == c \in {" ", "\t", "\n", ","}

TokenStarts(text) ==
    { i \in 1..Len(text) :
        ~IsSeparator(text[i]) /\ (i = 1 \/ IsSeparator(text[i - 1])) }

TokenAt(text, i) ==
    LET last == CHOOSE j \in i..Len(text) :
                    /\ \A k \in i..j : ~IsSeparator(text[k])
                    /\ (j = Len(text) \/ IsSeparator(text[j + 1]))
    IN  SubSeq(text, i, last)

OnlyDecimalDigits(token) ==
    \A k \in 1..Len(token) :
        token[k] \in {"0", "1", "2", "3", "4", "5", "6", "7", "8", "9"}

\* C13 as stated: the ids returned are exactly the tokens made of decimal
\* digits only, in their order of occurrence, repeats kept, every other
\* token left out.
C13_Original ==
    parseOut # None =>
        LET starts == { i \in TokenStarts(parseIn) :
                          OnlyDecimalDigits(TokenAt(parseIn, i)) }
            ids    == parseOut[1]
        IN  /\ Len(ids) = Cardinality(starts)
            /\ \A k \in 1..Len(ids) :
                 ids[k] = TokenAt(parseIn, KthOf(starts, k))

\* C14 as stated: clean_string applied to its own result returns that result,
\* for every input, also when the removal of a character leaves whitespace
\* at an end of the string.
C14_Original ==
    Len(cleanOut) = 2 => cleanOut[2] = cleanOut[1]

(***************************************************************************)
(* Properties of the spreadsheet assembly.                                 *)
(***************************************************************************)
\* two results, the first with data and the second empty
SecondEmpty ==
    /\ sheetOut # None
    /\ Len(sheetIn) = 2
    /\ sheetIn[1].nrows > 0
    /\ sheetIn[2].nrows = 0

\* the header and data block of the first result at the top of the sheet
FirstBlock ==
    LET rows == sheetOut[1].rows
        n    == sheetIn[1].nrows
    IN  /\ Len(rows) >= n + 1
        /\ rows[1] = [row |-> 0, kind |-> "header", from |-> 1, r |-> 0]
        /\ \A r \in 1..n :
             rows[r + 1] = [row |-> r, kind |-> "data", from |-> 1, r |-> r]

\* C15 as stated: the sheet holds the header and data block of the first
\* result and a "no data" marker row for the second, and no header row for
\* the second.
C15_Original ==
    SecondEmpty =>
        LET rows == sheetOut[1].rows IN
        /\ FirstBlock
        /\ \E k \in 1..Len(rows) : rows[k].from = 2 /\ rows[k].kind # "header"
        /\ \A k \in 1..Len(rows) : rows[k].from = 2 => rows[k].kind # "header"

\* C15 (amended): the sheet holds the header and data block of the first
\* result and nothing else: no row at all is written for the empty second
\* result, neither a marker row nor a header row; the second result is
\* reported by one warning that names its position.
C15_Amended ==
    SecondEmpty =>
        /\ FirstBlock
        /\ Len(sheetOut[1].rows) = sheetIn[1].nrows + 1
        /\ \A k \in 1..Len(sheetOut[1].rows) : sheetOut[1].rows[k].from # 2
        /\ sheetOut[1].warnings = <<2>>
        /\ ~sheetOut[1].st_error

C15_Witness ==
    /\ SecondEmpty
    /\ sheetIn[1].nrows = 2
    /\ Len(sheetOut[1].rows) = 3
    /\ sheetOut[1].warnings = <<2>>

\* C16: the header row is written once, for the first non-empty result; the
\* rows written occupy consecutive sheet rows from the top, without overlap
\* and without gap; each non-empty result's data rows are there once, in
\* result order and row order; an empty result takes no sheet row.
C16_RunningCursor ==
    sheetOut # None =>
        LET rows     == sheetOut[1].rows
            nonempty == { i \in 1..Len(sheetIn) : sheetIn[i].nrows > 0 }
            headers  == { k \in 1..Len(rows) : rows[k].kind = "header" }
        IN  /\ \A k \in 1..Len(rows) : rows[k].row = k - 1
            /\ nonempty = {} => rows = <<>>
            /\ nonempty # {} =>
                 /\ headers = {1}
                 /\ \A j \in nonempty : rows[1].from <= j
                 /\ rows[1].from \in nonempty
            /\ \A i \in nonempty : \A r \in 1..sheetIn[i].nrows :
                 Cardinality({ k \in 1..Len(rows) :
                     rows[k].kind = "data" /\ rows[k].from = i /\ rows[k].r = r }) = 1
            /\ \A k \in 1..Len(rows) :
                 rows[k].kind = "data" =>
                     /\ rows[k].from \in nonempty
                     /\ rows[k].r \in 1..sheetIn[rows[k].from].nrows
            /\ \A k, l \in 1..Len(rows) :
                 (k < l /\ rows[k].kind = "data" /\ rows[l].kind = "data") =>
                     \/ rows[k].from < rows[l].from
                     \/ rows[k].from = rows[l].from /\ rows[k].r < rows[l].r

\* an empty result first, then two results with data: the header is that of
\* the second result and the third result's rows follow headerless
C16_Witness ==
    /\ sheetOut # None
    /\ Len(sheetIn) = 3
    /\ sheetIn[1].nrows = 0
    /\ sheetIn[2].nrows = 2
    /\ sheetIn[3].nrows = 2
    /\ Len(sheetOut[1].rows) = 5
    /\ sheetOut[1].rows[1].from = 2
    /\ sheetOut[1].rows[4] = [row |-> 3, kind |-> "data", from |-> 3, r |-> 1]

(***************************************************************************)
(* Properties of the worker pools.                                         *)
(***************************************************************************)
\* C17: at every moment at most 4 report jobs and at most 8 participation
\* computations are executing, whatever the number submitted; a job beyond
\* that number is still queued, not started.
C17_PoolBounds ==
    /\ Cardinality({ i \in 1..Len(encuestas) : futures[i] = "running" }) <= 4
    /\ Cardinality({ i \in 1..Len(seleccion) : ppFutures[i] = "running" }) <= 8
    /\ Len(encuestas) > 4 =>
         \/ \E i \in 1..Len(encuestas) : futures[i] = "done"
         \/ \E i \in 1..Len(encuestas) : futures[i] = "queued"
    /\ Len(seleccion) > 8 =>
         \/ \E i \in 1..Len(seleccion) : ppFutures[i] = "done"
         \/ \E i \in 1..Len(seleccion) : ppFutures[i] = "queued"

\* nine surveys went through the participation pool and their report jobs
\* fill the report pool: four are executing and the others wait
C17_Witness ==
    /\ Len(ppLista) > 8
    /\ Cardinality({ i \in 1..Len(encuestas) : futures[i] = "running" }) = 4
    /\ Cardinality({ i \in 1..Len(encuestas) : futures[i] = "queued" }) >= 5

\* C18 as stated: the lists of results and of errors and the returned pair
\* are written only when every worker has finished its job.
C18_Original ==
    [][ (resultados' # resultados \/ errores' # errores \/ retorno' # retorno)
            => \A i \in 1..Len(encuestas) : futures[i] = "done" ]_vars

\* C18 (amended): a worker step writes nothing but its own future; the lists
\* of results and of errors are written only by the collection loop of the
\* orchestrating thread, one completed future at a time and possibly while
\* other workers are still running; the sorted pair is produced only after
\* every worker has finished and every future was collected.
C18_Amended ==
    [][ /\ (futures' # futures \/ futureRet' # futureRet) =>
             /\ resultados' = resultados
             /\ errores' = errores
             /\ retorno' = retorno
             /\ yielded' = yielded
             /\ \E i \in 1..Len(encuestas) :
                  \A j \in 1..Len(encuestas) :
                      j # i => (futures'[j] = futures[j] /\ futureRet'[j] = futureRet[j])
        /\ (resultados' # resultados \/ errores' # errores) =>
             /\ futures' = futures
             /\ futureRet' = futureRet
             /\ retorno' = retorno
             /\ \E i \in 1..Len(encuestas) :
                  /\ futures[i] = "done"
                  /\ i \notin yielded
                  /\ yielded' = yielded \cup {i}
        /\ retorno' # retorno =>
             /\ \A i \in 1..Len(encuestas) : futures[i] = "done"
             /\ yielded = 1..Len(encuestas)
             /\ resultados' = resultados
             /\ errores' = errores
      ]_vars

\* a result was collected while another job of the batch is still running
C18_Witness ==
    /\ bpc = "running"
    /\ Len(resultados) >= 1
    /\ \E i \in 1..Len(encuestas) : futures[i] = "running"

\* C19: with every remote call returning, a report batch runs to completion:
\* eventually every submitted job has terminated with a frame or with a
\* per-job error, and the orchestrator has returned its pair.
C19_Completion ==
    <>( /\ bpc = "returned"
        /\ retorno # None
        /\ \A i \in 1..Len(encuestas) :
             /\ futures[i] = "done"
             /\ futureRet[i] # None
             /\ futureRet[i][1].df # None \/ futureRet[i][1].err # None )

\* a batch of more jobs than workers has returned, every job of it having
\* timed out
C19_Witness ==
    /\ bpc = "returned"
    /\ Len(encuestas) > 4
    /\ Len(retorno[1].errores) = Len(encuestas)
    /\ \A i \in 1..Len(encuestas) :
         /\ futureRet[i][1].df = None
         /\ futureRet[i][1].err[1].text = "El reporte demoro demasiado en generarse"

(***************************************************************************)
(* Properties of the page.                                                 *)
(***************************************************************************)
\* the value read by st.session_state.get('report_ready', False) of line 446
ReadyAsRead(ready) == ready # <<>> /\ ready[1]

\* C20: after every press of "Buscar Encuestas", with or without valid course
\* ids in the text, the report state reads report_ready false, report_excel
\* none and report_errors none, and no download is offered; a workbook is
\* stored only by the generate handler, so a report offered for download was
\* generated after the most recent search.
C20_SearchResets ==
    [][ /\ (\E text \in Inputs : Buscar(text)) =>
             /\ ~ReadyAsRead(report_ready')
             /\ report_excel' = <<>>
             /\ report_errors' = <<>>
             /\ ~shown'.download
        /\ (report_excel' # <<>> /\ report_excel' # report_excel) =>
             (upc = "generating" /\ upc' = "idle")
        /\ shown'.download =>
             (ReadyAsRead(report_ready') /\ report_excel' # <<>>)
      ]_vars

\* a search whose text held no course id has been made: nothing is found and
\* the report state is the cleared one
C20_Witness ==
    /\ surveys_data = <<>>
    /\ report_ready = <<FALSE>>
    /\ report_excel = <<>>
    /\ report_errors = <<>>
    /\ checked = {}
    /\ ~shown.download

\* the run of the generate handler that ends now had no successful job
NoJobSucceeded ==
    /\ upc = "generating"
    /\ bpc = "returned"
    /\ retorno[1].resultados_ordenados = <<>>

\* C21: a report-generation run in which no job succeeds leaves report_excel,
\* report_ready and report_errors exactly as they were before the run, and
\* what the page then offers (the download and the warnings) is what the
\* report state of before the run gives: the report and the error list of an
\* earlier run remain the ones offered to the operator.
C21_FailedRunKeepsReport ==
    [][ (NoJobSucceeded /\ upc' = "idle") =>
            /\ report_excel' = report_excel
            /\ report_ready' = report_ready
            /\ report_errors' = report_errors
            /\ \E order \in Orders(Len(seleccionadas(surveys_data, checked))) :
                 shown' = render(surveys_data, checked, order,
                                 report_ready, report_excel, report_errors)
      ]_vars

\* a run with no successful job is about to end while the report and the
\* error list of an earlier run, which had a success and a failure, are stored
C21_Witness ==
    /\ NoJobSucceeded
    /\ retorno[1].errores # <<>>
    /\ report_ready = <<TRUE>>
    /\ report_excel # <<>>
    /\ report_errors # <<>>
    /\ report_errors[1] # <<>>
    /\ shown.download
    /\ shown.warnings = report_errors[1]

====
